---- MODULE Spec2Model ----
(***************************************************************************)
(* Model of the segment timing and media-assembly pipeline of              *)
(* src/video/subarticle_video_generator.py:                                *)
(*   slow_and_loop_video, group_words_for_subtitles,                       *)
(*   assemble_subarticle_video and generate_subarticle_news_video.         *)
(*                                                                         *)
(* Time is counted in ticks of 0.1 s, so the 0.1 s transition is 1 tick.   *)
(* Speed factors and stretched durations are exact rationals [num, den];   *)
(* floating-point rounding of the Python code is not modelled.             *)
(* A missing path (Python None) is the string "None", a present one "path".*)
(* A file of the output directory is its duration in ticks, 0 = no file.   *)
(***************************************************************************)
EXTENDS Integers, Sequences, FiniteSets, TLC

\* ------------------------------------------------------------------ bounds
MaxRaw == 6
MaxTarget == 30
MaxTokens == 4
MaxSegments == 3
MaxRunSegments == 2
MaxRuns == 2
MaxDeletes == 1
MaxOthers == 2
MaxImages == 3
MaxChars == 2
MaxNarration == 9

\* ------------------------------------------------------- program constants
MIN_SPEED_NUM == 2
MAX_SPEED_NUM == 4
SPEED_DEN == 5
MAX_WORDS == 4
TRANSITION == 1
RAW_CLIP == 50
\* ThreadPoolExecutor(max_workers=3)
MAX_WORKERS == 3
\* current_time += 0.1 after a transition clip, in ticks
TRANSITION_STEP == 1
\* IMAGE_INTERVAL = 4, in seconds
IMAGE_INTERVAL == 4

None == "None"
Path == "path"

\* ------------------------------------------------------------- rationals
Rat(n, d) == [num |-> n, den |-> d]

RatLess(a, b) == a.num * b.den < b.num * a.den

RatEq(a, b) == a.num * b.den = b.num * a.den

\* Python min(a, b): b only when b < a.
RatMin(a, b) == IF RatLess(b, a) THEN b ELSE a

\* Python max(a, b): b only when b > a.
RatMax(a, b) == IF RatLess(a, b) THEN b ELSE a

FloorDiv(a, b) == a \div b

\* math.ceil(a / b) for a >= 0, b > 0.
CeilDiv(a, b) == (a + b - 1) \div b

\* --------------------------------------------------- slow_and_loop_video
MIN_SPEED == Rat(MIN_SPEED_NUM, SPEED_DEN)

MAX_SPEED == Rat(MAX_SPEED_NUM, SPEED_DEN)

SlowFactorMinimum(original_duration, target_duration) == MIN_SPEED

SlowFactorUnclamped(original_duration, target_duration) ==
    Rat(original_duration, target_duration)

\* slow_factor = max(0.4, min(0.8, original_duration / target_duration))
SlowFactor(original_duration, target_duration) ==
    RatMax(MIN_SPEED, RatMin(MAX_SPEED, Rat(original_duration, target_duration)))

SlowedDurationScaled(original_duration, slow_factor) ==
    Rat(original_duration * slow_factor.num, slow_factor.den)

\* clip.with_speed_scaled(slow_factor).duration = duration / factor
SlowedDuration(original_duration, slow_factor) ==
    Rat(original_duration * slow_factor.den, slow_factor.num)

\* loops_needed = math.ceil(target_duration / slowed_duration)
LoopsNeeded(target_duration, slowed_duration) ==
    CeilDiv(target_duration * slowed_duration.den, slowed_duration.num)

\* The plan of slow_and_loop_video: speed, stretched length, repetitions,
\* length of the concatenation, trim point, and the content that is really
\* there between 0 and the trim point.
ReconciliationPlan(original_duration, target_duration) ==
    LET slow_factor == SlowFactor(original_duration, target_duration)
        slowed == SlowedDuration(original_duration, slow_factor)
        did_loop == RatLess(slowed, Rat(target_duration, 1))
        loops == IF did_loop THEN LoopsNeeded(target_duration, slowed) ELSE 1
        looped == Rat(loops * slowed.num, slowed.den)
    IN  [slow_factor |-> slow_factor,
         slowed_duration |-> slowed,
         did_loop |-> did_loop,
         loops_needed |-> loops,
         looped_duration |-> looped,
         trim_to |-> target_duration,
         playable |-> RatMin(Rat(target_duration, 1), looped)]

\* ------------------------------------------- group_words_for_subtitles
\* A word text is a sequence of characters.
Terminal == {".", "!", "?"}

\* word["text"].endswith((".", "!", "?"))
EndsWithTerminal(text) == Len(text) > 0 /\ text[Len(text)] \in Terminal

\* " ".join(w["text"] for w in group)
RECURSIVE JoinText(_)
JoinText(group) ==
    IF group = <<>> THEN <<>>
    ELSE IF Len(group) = 1 THEN group[1].text
    ELSE group[1].text \o <<" ">> \o JoinText(Tail(group))

\* The subtitle dict appended for a group; "words" is a ghost field that
\* remembers the tokens the cue was made of.
MakeCue(group) ==
    [text |-> JoinText(group),
     start |-> group[1].start,
     end |-> group[Len(group)].end,
     words |-> group]

FlushOnMaxOnly(group, word, max_words) == Len(group) >= max_words

\* if len(current_group) >= max_words or word["text"].endswith(...)
FlushNow(group, word, max_words) ==
    Len(group) >= max_words \/ EndsWithTerminal(word.text)

RemainderDropped(current_group, subtitles) == subtitles

\* Lines 451-457: if current_group, the remaining words make the last cue.
Remainder(current_group, subtitles) ==
    IF current_group # <<>>
    THEN Append(subtitles, MakeCue(current_group))
    ELSE subtitles

RECURSIVE GroupLoop(_, _, _, _, _)
GroupLoop(words, max_words, k, current_group, subtitles) ==
    IF k > Len(words)
    THEN Remainder(current_group, subtitles)
    ELSE LET word == words[k]
             grp == Append(current_group, word)
         IN  IF FlushNow(grp, word, max_words)
             THEN GroupLoop(words, max_words, k + 1, <<>>,
                            Append(subtitles, MakeCue(grp)))
             ELSE GroupLoop(words, max_words, k + 1, grp, subtitles)

group_words_for_subtitles(words, max_words) ==
    GroupLoop(words, max_words, 1, <<>>, <<>>)

\* ------------------------------------------------------------------ state
VARIABLES
    rRaw, rTarget, rPlan,            \* slow_and_loop_video on one clip
    rOthers,                         \* the calls for other clips in between
    gWords, gMaxWords, gSubtitles,   \* one call of group_words_for_subtitles
    gDone,
    tSegChars, tTotalDuration,       \* generate_news_video: len(seg["text"])
    tTimings, tDone,                 \* per segment, audio duration, timings
    fs,                              \* the files under output/
    pc,                              \* position in main() and the pipeline
    best_report,                     \* main(): the report handed to the pipeline
    reuse_existing,                  \* args.reuse, passed on as reuse_existing
    subarticles,                     \* len(subarticles)
    audio_results,                   \* list of (audio_path, duration)
    video_results,                   \* dict index -> path or None
    pending,                         \* futures as_completed has not yet yielded
    task,                            \* submitted index -> state of its future
    processed_videos,                \* list of path or None
    idx,                             \* loop index i of the current loop
    video_clips, all_subtitles, current_time,
    subtitle_clips,                  \* the clips made of the cues for rendering
    result,                          \* return value of the run
    raised,                          \* an exception left generate_subarticle_news_video
    export_started,                  \* write_videofile was called in this run
    decided,                         \* ghost: artifact -> what the run did with it
    collected,                       \* ghost: indices in as_completed order
    video_owner,                     \* ghost: key of video_results -> task stored there
    writes,                          \* ghost: key of video_results -> number of writes
    runs, deletes

reconVars == <<rRaw, rTarget, rPlan, rOthers>>
groupVars == <<gWords, gMaxWords, gSubtitles, gDone>>
runVars == <<reuse_existing, subarticles, audio_results, video_results, pending,
             processed_videos>>
asmVars == <<video_clips, all_subtitles, current_time, subtitle_clips>>
poolVars == <<task, collected, video_owner, writes>>
pipeVars == <<fs, pc, best_report, runVars, idx, asmVars, result, raised,
              export_started, decided, poolVars, runs, deletes>>
timingVars == <<tSegChars, tTotalDuration, tTimings, tDone>>
vars == <<reconVars, groupVars, timingVars, pipeVars>>

Max2(a, b) == IF a > b THEN a ELSE b

\* Segment indices, 0-based as in the code.
SegIdx == 0 .. (Max2(MaxSegments, MaxRunSegments) - 1)

\* Durations (ticks) the speech collaborator may return in a run.
AudioDurations == {40, 140}

\* Durations (ticks) of the assets handed to assemble_subarticle_video.
SegmentDurations == {32, 40, 65}

\* The reports getBestReport may rank first.
Reports == {"A", "B"}

\* The list at 0-based position i.
At(list, i) == list[i + 1]

RECURSIVE SumDur(_)
SumDur(clips) ==
    IF clips = <<>> THEN 0 ELSE clips[1].duration + SumDur(Tail(clips))

\* ------------------------------------------------------------ the files
\* subarticles_cache.json: 0 = no file, n > 0 = a list of n segments,
\* UNREADABLE = a file json.load cannot read.
UNREADABLE == 0 - 1

\* clear_output(): shutil.rmtree(OUTPUT_DIR), then empty directories.
\* output/report_cache.json lies in the same directory.  "segments_of" is
\* a ghost field: the report the cached segment list was extracted from.
clear_output ==
    [segments |-> 0,
     audio |-> [i \in SegIdx |-> 0],
     raw |-> [i \in SegIdx |-> 0],
     proc |-> [i \in SegIdx |-> 0],
     final |-> "absent",
     report |-> "none",
     segments_of |-> "none"]

ReuseFlagOnly(reuse, file) == reuse

\* if reuse_existing and <path>.exists()
CacheHit(reuse, file) == reuse /\ file # 0

ReadableAlways(segments) == TRUE
\* json.load(f) succeeds (lines 651-656).
Readable(segments) == segments > 0

\* Ghost record of what a run did with one artifact: whether its file
\* existed when the run looked, whether the run could use a file there (the
\* segment list parses; the segment has a raw clip and audio to process),
\* and whether the run reused the file, generated it anew, or did neither.
Decision(existed, usable, how) ==
    [existed |-> existed, usable |-> usable, how |-> how]

Key(kind, i) == <<kind, i>>

\* ----------------------------------------------------- the collaborators
\* generate_subarticle_speech: (path, duration), or (None, 0) on any exception.
generate_subarticle_speech(d) ==
    IF d > 0 THEN [path |-> Path, duration |-> d]
    ELSE [path |-> None, duration |-> 0]

generate_video_clip_uncaught(outcome) ==
    IF outcome = "ok" THEN Path ELSE "raise"

\* generate_video_clip: the path, or None on any exception.
generate_video_clip(outcome) ==
    IF outcome = "ok" THEN Path ELSE None

\* slow_and_loop_video: duration of processed_{i}.mp4, 0 when it returns None.
\* The file written is looped.subclipped(0, target_duration).
slow_and_loop_video(outcome, original_duration, target_duration) ==
    IF outcome = "ok"
    THEN ReconciliationPlan(original_duration, target_duration).trim_to
    ELSE 0

\* transcribe_with_whisper: [] on failure, else the word list.
Word(text, start, end) == [text |-> text, start |-> start, end |-> end]

Transcripts ==
    {<<>>,
     <<Word(<<"j", "a">>, 0, 5), Word(<<"o", "k", ".">>, 5, 12),
       Word(<<"!">>, 12, 12)>>}

\* f with f[k] = v.
Put(f, k, v) == [x \in DOMAIN f \cup {k} |-> IF x = k THEN v ELSE f[x]]

\* ------------------------------------------------------------------ main()
IdlePipe ==
    /\ best_report = "none"
    /\ reuse_existing = FALSE
    /\ subarticles = 0
    /\ audio_results = <<>>
    /\ video_results = <<>>
    /\ pending = {}
    /\ task = <<>>
    /\ processed_videos = <<>>
    /\ idx = 0
    /\ video_clips = <<>>
    /\ all_subtitles = <<>>
    /\ subtitle_clips = <<>>
    /\ current_time = 0
    /\ result = "unset"
    /\ raised = FALSE
    /\ export_started = FALSE
    /\ decided = <<>>
    /\ collected = <<>>
    /\ video_owner = <<>>
    /\ writes = <<>>

\* subarticle_main.py lines 91-95: with --reuse the cached report is loaded.
MainLoadReport ==
    /\ pc = "idle"
    /\ runs < MaxRuns
    /\ fs.report # "none"
    /\ reuse_existing' = TRUE
    /\ best_report' = fs.report
    /\ decided' = Put(<<>>, Key("report", 0), Decision(TRUE, TRUE, "reuse"))
    /\ pc' = "selected"
    /\ UNCHANGED <<fs, subarticles, audio_results, video_results, pending,
                   processed_videos, idx, asmVars, result, raised,
                   export_started, poolVars, runs, deletes, reconVars,
                   groupVars,
                   timingVars>>

\* subarticle_main.py lines 98-130: reports are scraped and ranked, the best
\* one is r, and save_report_cache writes it to output/report_cache.json.
MainSelectReport(reuse, r) ==
    /\ pc = "idle"
    /\ runs < MaxRuns
    /\ ~(reuse /\ fs.report # "none")
    /\ reuse_existing' = reuse
    /\ best_report' = r
    /\ fs' = [fs EXCEPT !.report = r]
    /\ decided' = Put(<<>>, Key("report", 0),
                      Decision(fs.report # "none", TRUE, "generate"))
    /\ pc' = "selected"
    /\ UNCHANGED <<subarticles, audio_results, video_results, pending,
                   processed_videos, idx, asmVars, result, raised,
                   export_started, poolVars, runs, deletes, reconVars,
                   groupVars,
                   timingVars>>

\* subarticle_main.py lines 103-105 and 113-115: nothing scraped or nothing
\* ranked, main() returns without calling the pipeline.
MainNoReports(reuse) ==
    /\ pc = "idle"
    /\ runs < MaxRuns
    /\ ~(reuse /\ fs.report # "none")
    /\ reuse_existing' = reuse
    /\ best_report' = "none"
    /\ runs' = runs + 1
    /\ UNCHANGED <<fs, pc, subarticles, audio_results, video_results, pending,
                   processed_videos, idx, asmVars, result, raised,
                   export_started, decided, poolVars, deletes, reconVars,
                   groupVars,
                   timingVars>>

\* --------------------------------------- generate_subarticle_news_video
\* main() calls generate_subarticle_news_video(best_report, 0, args.reuse):
\* lines 635-640.
StartRun(reuse) ==
    /\ pc = "selected"
    /\ reuse = reuse_existing
    /\ runs < MaxRuns
    /\ runs' = runs + 1
    /\ reuse_existing' = reuse
    /\ fs' = IF reuse THEN fs ELSE clear_output
    /\ subarticles' = 0
    /\ audio_results' = <<>>
    /\ video_results' = <<>>
    /\ pending' = {}
    /\ task' = <<>>
    /\ processed_videos' = <<>>
    /\ idx' = 0
    /\ video_clips' = <<>>
    /\ all_subtitles' = <<>>
    /\ subtitle_clips' = <<>>
    /\ current_time' = 0
    /\ result' = "unset"
    /\ raised' = FALSE
    /\ export_started' = FALSE
    /\ collected' = <<>>
    /\ video_owner' = <<>>
    /\ writes' = <<>>
    /\ pc' = "extract"
    /\ UNCHANGED <<best_report, decided, deletes, reconVars, groupVars,
                   timingVars>>

\* Step 1, cache hit: the sub-articles are loaded from subarticles_cache.json.
LoadSubarticles ==
    /\ pc = "extract"
    /\ CacheHit(reuse_existing, fs.segments) /\ Readable(fs.segments)
    /\ subarticles' = fs.segments
    /\ decided' = Put(decided, Key("segments", 0),
                      Decision(fs.segments # 0, fs.segments > 0, "reuse"))
    /\ pc' = "audio"
    /\ UNCHANGED <<fs, best_report, reuse_existing, audio_results,
                   video_results, pending, processed_videos, idx, asmVars,
                   result, raised, export_started, poolVars, runs, deletes,
                   reconVars, groupVars,
                   timingVars>>

\* Step 1, no usable cache: extract_subarticles(report) returns n segments
\* and the list is written to the cache.
ExtractSubarticles(n) ==
    /\ pc = "extract"
    /\ ~(CacheHit(reuse_existing, fs.segments) /\ Readable(fs.segments))
    /\ n > 0
    /\ subarticles' = n
    /\ fs' = [fs EXCEPT !.segments = n, !.segments_of = best_report]
    /\ decided' = Put(decided, Key("segments", 0),
                      Decision(fs.segments # 0, fs.segments > 0,
                               "generate"))
    /\ pc' = "audio"
    /\ UNCHANGED <<best_report, reuse_existing, audio_results, video_results,
                   pending, processed_videos, idx, asmVars, result, raised,
                   export_started, poolVars, runs, deletes, reconVars,
                   groupVars,
                   timingVars>>

\* Step 1, extract_subarticles returns None or []: return None.
ExtractFails ==
    /\ pc = "extract"
    /\ ~(CacheHit(reuse_existing, fs.segments) /\ Readable(fs.segments))
    /\ result' = None
    /\ decided' = Put(decided, Key("segments", 0),
                      Decision(fs.segments # 0, fs.segments > 0,
                               "generate"))
    /\ pc' = "done"
    /\ UNCHANGED <<fs, best_report, runVars, idx, asmVars, raised,
                   export_started, poolVars, runs, deletes, reconVars,
                   groupVars,
                   timingVars>>

\* Step 2, one iteration: the audio of segment idx is reused from its file.
ReuseAudio ==
    /\ pc = "audio"
    /\ idx < subarticles
    /\ CacheHit(reuse_existing, fs.audio[idx])
    /\ audio_results' =
           Append(audio_results,
                  [path |-> Path, duration |-> fs.audio[idx], segment |-> idx])
    /\ decided' = Put(decided, Key("audio", idx),
                      Decision(fs.audio[idx] # 0, TRUE, "reuse"))
    /\ idx' = idx + 1
    /\ UNCHANGED <<fs, pc, best_report, reuse_existing, subarticles,
                   video_results, pending, processed_videos, asmVars, result,
                   raised, export_started, poolVars, runs, deletes, reconVars,
                   groupVars,
                   timingVars>>

\* Step 2, one iteration: generate_subarticle_speech(sub["text"], idx);
\* d is the duration of the synthesized file, 0 when the call fails.
GenerateAudio(d) ==
    /\ pc = "audio"
    /\ idx < subarticles
    /\ ~CacheHit(reuse_existing, fs.audio[idx])
    /\ LET r == generate_subarticle_speech(d)
       IN  audio_results' =
               Append(audio_results,
                      [path |-> r.path, duration |-> r.duration,
                       segment |-> idx])
    /\ fs' = IF d > 0 THEN [fs EXCEPT !.audio[idx] = d] ELSE fs
    /\ decided' = Put(decided, Key("audio", idx),
                      Decision(fs.audio[idx] # 0, TRUE, "generate"))
    /\ idx' = idx + 1
    /\ UNCHANGED <<pc, best_report, reuse_existing, subarticles, video_results,
                   pending, processed_videos, asmVars, result, raised,
                   export_started, poolVars, runs, deletes, reconVars,
                   groupVars,
                   timingVars>>

\* ------------------------------------------------------ step 3, thread pool
AllVideos(n, existing) == 0 .. (n - 1)

\* Lines 688-698: videos_to_generate holds the indices without a reused clip.
VideosToGenerate(n, existing) == (0 .. (n - 1)) \ existing

ResultKeyByCompletion(i, n) == n

\* Lines 709-710: idx = futures[future]; video_results[idx] = ...
\* i is the index the future was submitted with, n the number of futures
\* as_completed has yielded before.
ResultKey(i, n) == i

JoinAnyTime(p, t) == TRUE

\* Lines 703-710: the as_completed loop ends when every future was yielded
\* and the with-block waits for the workers.
AllCollected(p, t) == p = {} /\ \A i \in DOMAIN t : t[i] \notin {"queued", "running"}

\* Step 3, lines 688-707: cached clips go to the results, the others are
\* submitted to the thread pool.
SubmitVideos ==
    /\ pc = "audio"
    /\ idx = subarticles
    /\ LET existing == {i \in 0 .. (subarticles - 1) :
                           CacheHit(reuse_existing, fs.raw[i])}
           togen == VideosToGenerate(subarticles, existing)
       IN  /\ video_results' = [i \in existing |-> Path]
           /\ video_owner' = [i \in existing |-> i]
           /\ writes' = [i \in existing |-> 1]
           /\ pending' = togen
           /\ task' = [i \in togen |-> "queued"]
           /\ decided' =
                  [k \in DOMAIN decided \cup
                         {Key("raw", i) : i \in 0 .. (subarticles - 1)} |->
                      IF k \in DOMAIN decided THEN decided[k]
                      ELSE Decision(fs.raw[k[2]] # 0, TRUE,
                                    IF k[2] \in existing THEN "reuse"
                                    ELSE "generate")]
    /\ collected' = <<>>
    /\ pc' = "video"
    /\ UNCHANGED <<fs, best_report, reuse_existing, subarticles, audio_results,
                   processed_videos, idx, asmVars, result, raised,
                   export_started, runs, deletes, reconVars, groupVars,
                   timingVars>>

Running == {i \in DOMAIN task : task[i] = "running"}

\* ThreadPoolExecutor(max_workers=3): a free worker takes a queued task.
WorkerStart(i) ==
    /\ pc = "video"
    /\ i \in DOMAIN task
    /\ task[i] = "queued"
    /\ Cardinality(Running) < MAX_WORKERS
    /\ task' = [task EXCEPT ![i] = "running"]
    /\ UNCHANGED <<fs, pc, best_report, runVars, idx, asmVars, result, raised,
                   export_started, decided, collected, video_owner, writes,
                   runs, deletes, reconVars, groupVars,
                   timingVars>>

\* generate_video_clip(prompt, i) ends in its worker: the clip file is
\* written on success and the future holds the return value.
WorkerFinish(i, outcome) ==
    /\ i \in DOMAIN task
    /\ task[i] = "running"
    /\ LET r == generate_video_clip(outcome)
       IN  /\ task' = [task EXCEPT ![i] = r]
           /\ fs' = IF r = Path THEN [fs EXCEPT !.raw[i] = RAW_CLIP] ELSE fs
    /\ UNCHANGED <<pc, best_report, runVars, idx, asmVars, result, raised,
                   export_started, decided, collected, video_owner, writes,
                   runs, deletes, reconVars, groupVars,
                   timingVars>>

\* Lines 708-710: as_completed yields the finished future of index i and
\* its result is stored; future.result() re-raises what the task raised.
VideoDone(i) ==
    /\ pc = "video"
    /\ i \in pending
    /\ task[i] \notin {"queued", "running"}
    /\ LET r == task[i]
           key == ResultKey(i, Len(collected))
       IN  IF r = "raise"
           THEN /\ raised' = TRUE
                /\ result' = None
                /\ pc' = "done"
                /\ UNCHANGED <<video_results, video_owner, writes,
                   timingVars>>
           ELSE /\ video_results' = Put(video_results, key, r)
                /\ video_owner' = Put(video_owner, key, i)
                /\ writes' = Put(writes, key,
                                 IF key \in DOMAIN writes
                                 THEN writes[key] + 1 ELSE 1)
                /\ UNCHANGED <<raised, result, pc,
                   timingVars>>
    /\ pending' = pending \ {i}
    /\ collected' = Append(collected, i)
    /\ UNCHANGED <<fs, best_report, reuse_existing, subarticles, audio_results,
                   processed_videos, idx, asmVars, export_started, decided,
                   task, runs, deletes, reconVars, groupVars,
                   timingVars>>

\* Line 713: all futures are done, the results are put in index order.
JoinVideos ==
    /\ pc = "video"
    /\ AllCollected(pending, task)
    /\ pc' = "process"
    /\ idx' = 0
    /\ UNCHANGED <<fs, best_report, runVars, asmVars, result, raised,
                   export_started, decided, poolVars, runs, deletes,
                   reconVars, groupVars,
                   timingVars>>

\* video_results.get(i)
VideoPath(i) == IF i \in DOMAIN video_results THEN video_results[i] ELSE None

\* Line 719: if video_path and duration > 0
Processable(i) == VideoPath(i) # None /\ At(audio_results, i).duration > 0

\* Step 4, one iteration without a raw clip or without audio: None.
ProcessNone ==
    /\ pc = "process"
    /\ idx < subarticles
    /\ ~Processable(idx)
    /\ processed_videos' = Append(processed_videos, None)
    /\ decided' = Put(decided, Key("proc", idx),
                      Decision(fs.proc[idx] # 0, Processable(idx), "none"))
    /\ idx' = idx + 1
    /\ UNCHANGED <<fs, pc, best_report, reuse_existing, subarticles,
                   audio_results, video_results, pending, asmVars, result,
                   raised, export_started, poolVars, runs, deletes, reconVars,
                   groupVars,
                   timingVars>>

\* Step 4, one iteration: processed_{i}.mp4 exists and is reused.
ReuseProcessed ==
    /\ pc = "process"
    /\ idx < subarticles
    /\ Processable(idx)
    /\ CacheHit(reuse_existing, fs.proc[idx])
    /\ processed_videos' = Append(processed_videos, Path)
    /\ decided' = Put(decided, Key("proc", idx),
                      Decision(fs.proc[idx] # 0, Processable(idx), "reuse"))
    /\ idx' = idx + 1
    /\ UNCHANGED <<fs, pc, best_report, reuse_existing, subarticles,
                   audio_results, video_results, pending, asmVars, result,
                   raised, export_started, poolVars, runs, deletes, reconVars,
                   groupVars,
                   timingVars>>

\* Step 4, one iteration: slow_and_loop_video(video_path, duration, i).
ProcessVideo(outcome) ==
    /\ pc = "process"
    /\ idx < subarticles
    /\ Processable(idx)
    /\ ~CacheHit(reuse_existing, fs.proc[idx])
    /\ LET d == slow_and_loop_video(outcome, fs.raw[idx],
                                    At(audio_results, idx).duration)
       IN  /\ processed_videos' =
                  Append(processed_videos, IF d > 0 THEN Path ELSE None)
           /\ fs' = IF d > 0 THEN [fs EXCEPT !.proc[idx] = d] ELSE fs
    /\ decided' = Put(decided, Key("proc", idx),
                      Decision(fs.proc[idx] # 0, Processable(idx), "generate"))
    /\ idx' = idx + 1
    /\ UNCHANGED <<pc, best_report, reuse_existing, subarticles, audio_results,
                   video_results, pending, asmVars, result, raised,
                   export_started, poolVars, runs, deletes, reconVars,
                   groupVars,
                   timingVars>>

\* Step 5: assemble_subarticle_video is called, lines 510-514.
BeginAssemble ==
    /\ pc = "process"
    /\ idx = subarticles
    /\ pc' = "assemble"
    /\ idx' = 0
    /\ video_clips' = <<>>
    /\ all_subtitles' = <<>>
    /\ subtitle_clips' = <<>>
    /\ current_time' = 0
    /\ UNCHANGED <<fs, best_report, runVars, result, raised, export_started,
                   decided, poolVars, runs, deletes, reconVars, groupVars,
                   timingVars>>

\* ---------------------------------------------- assemble_subarticle_video
\* audio_paths = [r[0] for r in audio_results]
AudioPath(i) == At(audio_results, i).path

\* Line 517: the segment is composited unless a path is None.
HasBoth(i) == At(processed_videos, i) # None /\ AudioPath(i) # None

TransitionClipDouble(i, t) ==
    [kind |-> "transition", index |-> i, duration |-> 2 * TRANSITION,
     audio_duration |-> 0, start |-> t]

\* transition = ColorClip(size=TIKTOK_SIZE, color=(0, 0, 0), duration=0.1)
TransitionClip(i, t) ==
    [kind |-> "transition", index |-> i, duration |-> TRANSITION,
     audio_duration |-> 0, start |-> t]

NoTransition(i, t) == <<>>

TransitionAlways(i, t) == <<TransitionClip(i, t)>>

\* Lines 546-551: a 0.1 s black clip before every segment with i > 0.
TransitionClips(i, t) == IF i > 0 THEN <<TransitionClip(i, t)>> ELSE <<>>

TransitionAdvanceNone(i) == 0

\* Lines 546 and 551: if i > 0, current_time += 0.1
TransitionAdvance(i) == IF i > 0 THEN TRANSITION_STEP ELSE 0

\* video_with_audio: the processed clip of segment i with its audio attached;
\* "start" remembers current_time at the moment it is appended.
SegmentClip(i, t) ==
    [kind |-> "segment", index |-> i, duration |-> fs.proc[i],
     audio_duration |-> fs.audio[i], start |-> t]

OffsetCuesLocal(subtitles, t, i) ==
    [k \in 1 .. Len(subtitles) |->
        [text |-> subtitles[k].text,
         start |-> subtitles[k].start,
         end |-> subtitles[k].end,
         segment |-> i,
         local_start |-> subtitles[k].start,
         local_end |-> subtitles[k].end]]

\* Lines 558-563: the cues of one segment moved to the position t;
\* "segment", "local_start" and "local_end" are ghost fields: the segment
\* the cue belongs to and its times as group_words_for_subtitles gave them.
OffsetCues(subtitles, t, i) ==
    [k \in 1 .. Len(subtitles) |->
        [text |-> subtitles[k].text,
         start |-> subtitles[k].start + t,
         end |-> subtitles[k].end + t,
         segment |-> i,
         local_start |-> subtitles[k].start,
         local_end |-> subtitles[k].end]]

\* Line 517-518: continue.
SkipSegment ==
    /\ pc = "assemble"
    /\ idx < subarticles
    /\ ~HasBoth(idx)
    /\ idx' = idx + 1
    /\ UNCHANGED <<fs, pc, best_report, decided, poolVars, runVars, asmVars, result, raised, export_started,
                   runs, deletes, reconVars, groupVars,
                   timingVars>>

\* Lines 520-566: one segment is put on the timeline; words is what
\* transcribe_with_whisper returns for its audio.
CompositeSegment(words) ==
    /\ pc = "assemble"
    /\ idx < subarticles
    /\ HasBoth(idx)
    /\ LET trans == TransitionClips(idx, current_time)
           t == current_time + TransitionAdvance(idx)
           subs == IF words # <<>>
                   THEN OffsetCues(group_words_for_subtitles(words, MAX_WORDS),
                                   t, idx)
                   ELSE <<>>
           clip == SegmentClip(idx, t)
       IN  /\ video_clips' = video_clips \o trans \o <<clip>>
           /\ all_subtitles' = all_subtitles \o subs
           /\ subtitle_clips' = subtitle_clips
           /\ current_time' = t + clip.duration
    /\ idx' = idx + 1
    /\ UNCHANGED <<fs, pc, best_report, decided, poolVars, runVars, result,
                   raised, export_started, runs, deletes, reconVars,
                   groupVars,
                   timingVars>>

NoClipsNever(clips) == FALSE

\* Line 568: if not video_clips
NoClips(clips) == clips = <<>>

\* Lines 568-570: nothing to concatenate, return None.
AssembleNothing ==
    /\ pc = "assemble"
    /\ idx = subarticles
    /\ NoClips(video_clips)
    /\ result' = None
    /\ pc' = "done"
    /\ UNCHANGED <<fs, best_report, decided, poolVars, runVars, idx, asmVars, raised, export_started, runs,
                   deletes, reconVars, groupVars,
                   timingVars>>

\* create_tiktok_subtitle(sub["text"], duration, sub["start"])
SubtitleClip(sub) ==
    [text |-> sub.text, start |-> sub.start, duration |-> sub.end - sub.start]

RECURSIVE SubtitleClipsUnfiltered(_)
SubtitleClipsUnfiltered(subs) ==
    IF subs = <<>> THEN <<>>
    ELSE <<SubtitleClip(subs[1])>> \o SubtitleClipsUnfiltered(Tail(subs))

\* Lines 575-581 (video_generator.py lines 466-472): a clip for every cue
\* with duration > 0, in order.
RECURSIVE SubtitleClips(_)
SubtitleClips(subs) ==
    IF subs = <<>> THEN <<>>
    ELSE (IF subs[1].end - subs[1].start > 0
          THEN <<SubtitleClip(subs[1])>> ELSE <<>>)
         \o SubtitleClips(Tail(subs))

\* Lines 573-591: the clips are concatenated, the cues overlaid, and
\* write_videofile starts writing FINAL_DIR/<output_name>.mp4.
BeginExport ==
    /\ pc = "assemble"
    /\ idx = subarticles
    /\ ~NoClips(video_clips)
    /\ subtitle_clips' = SubtitleClips(all_subtitles)
    /\ fs' = [fs EXCEPT !.final = "partial"]
    /\ export_started' = TRUE
    /\ pc' = "export"
    /\ UNCHANGED <<best_report, decided, poolVars, runVars, idx, video_clips,
                   all_subtitles, current_time, result, raised, runs, deletes,
                   reconVars, groupVars, timingVars>>

\* Lines 591-606: the export completes and the path is returned.
ExportDone ==
    /\ pc = "export"
    /\ fs' = [fs EXCEPT !.final = "complete"]
    /\ result' = Path
    /\ pc' = "done"
    /\ UNCHANGED <<best_report, decided, poolVars, runVars, idx, asmVars, raised, export_started, runs,
                   deletes, reconVars, groupVars,
                   timingVars>>

\* Lines 608-612: write_videofile raises, the exception is caught and None is
\* returned; what was written so far stays where it is.
ExportFails ==
    /\ pc = "export"
    /\ result' = None
    /\ pc' = "done"
    /\ UNCHANGED <<fs, best_report, decided, poolVars, runVars, idx, asmVars, raised, export_started, runs,
                   deletes, reconVars, groupVars,
                   timingVars>>

\* The run has returned to main() and main() ends: the locals of both are
\* gone, the files stay.
Return ==
    /\ pc = "done"
    /\ pc' = "idle"
    /\ best_report' = "none"
    /\ reuse_existing' = FALSE
    /\ subarticles' = 0
    /\ audio_results' = <<>>
    /\ video_results' = <<>>
    /\ pending' = {}
    /\ task' = <<>>
    /\ processed_videos' = <<>>
    /\ idx' = 0
    /\ video_clips' = <<>>
    /\ all_subtitles' = <<>>
    /\ subtitle_clips' = <<>>
    /\ current_time' = 0
    /\ result' = "unset"
    /\ raised' = FALSE
    /\ export_started' = FALSE
    /\ decided' = <<>>
    /\ collected' = <<>>
    /\ video_owner' = <<>>
    /\ writes' = <<>>
    /\ UNCHANGED <<fs, runs, deletes, reconVars, groupVars,
                   timingVars>>

\* Between two runs a cached media file goes missing from the output
\* directory: the case the per-file exists() tests of lines 675, 694 and 722
\* are written for.
DeleteArtifact(kind, i) ==
    /\ pc = "idle"
    /\ deletes < MaxDeletes
    /\ fs[kind][i] # 0
    /\ fs' = [fs EXCEPT ![kind][i] = 0]
    /\ deletes' = deletes + 1
    /\ UNCHANGED <<pc, best_report, decided, poolVars, runVars, idx, asmVars, result, raised, export_started,
                   runs, reconVars, groupVars,
                   timingVars>>


\* Between two runs subarticles_cache.json goes missing (v = 0) or is damaged
\* so that json.load raises (v = UNREADABLE): the cases the exists() test of
\* line 650 and the try/except of lines 651-656 are written for.
DamageSegments(v) ==
    /\ pc = "idle"
    /\ deletes < MaxDeletes
    /\ fs.segments > 0
    /\ fs' = [fs EXCEPT !.segments = v, !.segments_of = "none"]
    /\ deletes' = deletes + 1
    /\ UNCHANGED <<pc, best_report, decided, poolVars, runVars, idx, asmVars,
                   result, raised, export_started, runs, reconVars, groupVars,
                   timingVars>>

\* --------------------------------------------------------- specifications
IdleRecon == rRaw = 0 /\ rTarget = 0 /\ rPlan = <<>> /\ rOthers = <<>>

IdleGroup == gWords = <<>> /\ gMaxWords = 0 /\ gSubtitles = <<>> /\ gDone = FALSE

IdleTiming ==
    tSegChars = <<>> /\ tTotalDuration = 0 /\ tTimings = <<>> /\ tDone = FALSE

\* The pipeline: runs of generate_subarticle_news_video over one output
\* directory, which is empty at first.
Init ==
    /\ IdleRecon
    /\ IdleGroup
    /\ IdleTiming
    /\ IdlePipe
    /\ fs = clear_output
    /\ pc = "idle"
    /\ runs = 0
    /\ deletes = 0

Next ==
    \/ MainLoadReport
    \/ \E reuse \in BOOLEAN, r \in Reports : MainSelectReport(reuse, r)
    \/ \E reuse \in BOOLEAN : MainNoReports(reuse)
    \/ \E reuse \in BOOLEAN : StartRun(reuse)
    \/ LoadSubarticles
    \/ \E n \in 1 .. MaxRunSegments : ExtractSubarticles(n)
    \/ ExtractFails
    \/ ReuseAudio
    \/ \E d \in {0} \cup AudioDurations : GenerateAudio(d)
    \/ SubmitVideos
    \/ \E i \in SegIdx : WorkerStart(i)
    \/ \E i \in SegIdx, outcome \in {"ok", "error"} : WorkerFinish(i, outcome)
    \/ \E i \in SegIdx : VideoDone(i)
    \/ JoinVideos
    \/ ProcessNone
    \/ ReuseProcessed
    \/ \E outcome \in {"ok", "error"} : ProcessVideo(outcome)
    \/ BeginAssemble
    \/ SkipSegment
    \/ \E words \in Transcripts : CompositeSegment(words)
    \/ AssembleNothing
    \/ BeginExport
    \/ ExportDone
    \/ ExportFails
    \/ Return
    \/ \E kind \in {"audio", "raw", "proc"}, i \in SegIdx : DeleteArtifact(kind, i)
    \/ \E v \in {0, UNREADABLE} : DamageSegments(v)

Spec == Init /\ [][Next]_vars

\* One call of assemble_subarticle_video on any lists of up to MaxSegments
\* entries.
SegmentInputs ==
    {[audio |-> a, proc |-> p] :
        a \in {0} \cup SegmentDurations, p \in {0} \cup SegmentDurations}

InitAssemble ==
    /\ IdleRecon
    /\ IdleGroup
    /\ IdleTiming
    /\ \E n \in 1 .. MaxSegments :
         \E inp \in [0 .. (n - 1) -> SegmentInputs] :
            /\ subarticles = n
            /\ audio_results =
                   [k \in 1 .. n |->
                       [path |-> IF inp[k - 1].audio > 0 THEN Path ELSE None,
                        duration |-> inp[k - 1].audio,
                        segment |-> k - 1]]
            /\ processed_videos =
                   [k \in 1 .. n |->
                       IF inp[k - 1].proc > 0 THEN Path ELSE None]
            /\ fs = [clear_output EXCEPT
                       !.audio = [i \in SegIdx |->
                                    IF i < n THEN inp[i].audio ELSE 0],
                       !.proc = [i \in SegIdx |->
                                    IF i < n THEN inp[i].proc ELSE 0]]
    /\ best_report = "A"
    /\ reuse_existing = FALSE
    /\ video_results = <<>>
    /\ pending = {}
    /\ task = <<>>
    /\ decided = <<>>
    /\ collected = <<>>
    /\ video_owner = <<>>
    /\ writes = <<>>
    /\ idx = 0
    /\ video_clips = <<>>
    /\ all_subtitles = <<>>
    /\ subtitle_clips = <<>>
    /\ current_time = 0
    /\ result = "unset"
    /\ raised = FALSE
    /\ export_started = FALSE
    /\ pc = "assemble"
    /\ runs = 1
    /\ deletes = 0

NextAssemble ==
    \/ SkipSegment
    \/ \E words \in Transcripts : CompositeSegment(words)
    \/ AssembleNothing
    \/ BeginExport
    \/ ExportDone
    \/ ExportFails

SpecAssemble == InitAssemble /\ [][NextAssemble]_vars

\* Calls of slow_and_loop_video: one clip with any pair of positive
\* durations is processed, clips of other segments are processed, and the
\* first clip is processed once more.
InitReconcile ==
    /\ rRaw \in 1 .. MaxRaw
    /\ rTarget \in 1 .. MaxTarget
    /\ rPlan = <<>>
    /\ rOthers = <<>>
    /\ IdleGroup
    /\ IdleTiming
    /\ IdlePipe
    /\ fs = clear_output
    /\ pc = "off"
    /\ runs = 0
    /\ deletes = 0

PlanOfCallStateful(original_duration, target_duration, earlier) ==
    ReconciliationPlan(original_duration + Len(earlier), target_duration)

\* Lines 344-369: what one call computes; earlier is the list of the calls
\* made before it, of which the function body reads nothing.
PlanOfCall(original_duration, target_duration, earlier) ==
    ReconciliationPlan(original_duration, target_duration)

Reconcile ==
    /\ rPlan = <<>>
    /\ rRaw > 0
    /\ rPlan' = <<PlanOfCall(rRaw, rTarget, rOthers)>>
    /\ UNCHANGED <<rRaw, rTarget, rOthers, groupVars, pipeVars,
                   timingVars>>

\* The clip of another segment is processed.
ReconcileOther(raw, target) ==
    /\ Len(rPlan) = 1
    /\ Len(rOthers) < MaxOthers
    /\ rOthers' = Append(rOthers,
                         [raw |-> raw, target |-> target,
                          plan |-> PlanOfCall(raw, target, rOthers)])
    /\ UNCHANGED <<rRaw, rTarget, rPlan, groupVars, pipeVars,
                   timingVars>>

\* The first clip is processed again, with the same durations.
ReconcileAgain ==
    /\ Len(rPlan) = 1
    /\ rPlan' = Append(rPlan, PlanOfCall(rRaw, rTarget, rOthers))
    /\ UNCHANGED <<rRaw, rTarget, rOthers, groupVars, pipeVars,
                   timingVars>>

NextReconcile ==
    \/ Reconcile
    \/ \E raw \in {1, MaxRaw}, target \in {1, MaxTarget} :
          ReconcileOther(raw, target)
    \/ ReconcileAgain

SpecReconcile == InitReconcile /\ [][NextReconcile]_vars

\* One call of group_words_for_subtitles on any word list Whisper may give.
WordTexts ==
    {<<"j", "a">>, <<"j", "a", ".">>, <<"j", "a", "!">>, <<"j", "a", "?">>}

WordLengths == {0, 1}

InitGroup ==
    /\ IdleRecon
    /\ gWords = <<>>
    /\ gMaxWords \in 1 .. MAX_WORDS
    /\ gSubtitles = <<>>
    /\ gDone = FALSE
    /\ IdleTiming
    /\ IdlePipe
    /\ fs = clear_output
    /\ pc = "off"
    /\ runs = 0
    /\ deletes = 0

\* transcribe_with_whisper, lines 413-420: the next word is appended; it
\* starts where the previous one ended.
AppendWord(text, len) ==
    /\ ~gDone
    /\ gMaxWords > 0
    /\ Len(gWords) < MaxTokens
    /\ LET start == IF gWords = <<>> THEN 0 ELSE gWords[Len(gWords)].end
       IN  gWords' = Append(gWords, Word(text, start, start + len))
    /\ UNCHANGED <<gMaxWords, gSubtitles, gDone, reconVars, pipeVars,
                   timingVars>>

GroupWords ==
    /\ ~gDone
    /\ gMaxWords > 0
    /\ gSubtitles' = group_words_for_subtitles(gWords, gMaxWords)
    /\ gDone' = TRUE
    /\ UNCHANGED <<gWords, gMaxWords, reconVars, pipeVars,
                   timingVars>>

NextGroup ==
    \/ \E text \in WordTexts, len \in WordLengths : AppendWord(text, len)
    \/ GroupWords

SpecGroup == InitGroup /\ [][NextGroup]_vars

\* ------------------------------------- generate_news_video, image timings
RatAdd(a, b) == Rat(a.num * b.den + b.num * a.den, a.den * b.den)

RECURSIVE SumSeq(_)
SumSeq(q) == IF q = <<>> THEN 0 ELSE q[1] + SumSeq(Tail(q))

\* Lines 580-581: seg_duration, proportional to the length of the text, or
\* an equal share when no segment has text.
SegDuration(chars, k, total_duration) ==
    IF SumSeq(chars) > 0
    THEN Rat(chars[k] * total_duration, SumSeq(chars))
    ELSE Rat(total_duration, Len(chars))

\* Lines 578-585: current_time before segment k.
RECURSIVE SegStart(_, _, _)
SegStart(chars, k, total_duration) ==
    IF k = 1 THEN Rat(0, 1)
    ELSE RatAdd(SegStart(chars, k - 1, total_duration),
                SegDuration(chars, k - 1, total_duration))

\* Lines 574-585 and 602-605: segment_timings of the segment branch.
ProportionalTimings(chars, total_duration) ==
    [k \in 1 .. Len(chars) |->
        [start |-> SegStart(chars, k, total_duration),
         duration |-> SegDuration(chars, k, total_duration)]]

\* Line 608: num_images = math.ceil(total_duration / IMAGE_INTERVAL)
NumImages(total_duration) == CeilDiv(total_duration, IMAGE_INTERVAL)

\* Lines 632-638: segment_timings of the interval branch.
IntervalTimings(total_duration) ==
    [k \in 1 .. NumImages(total_duration) |->
        [start |-> Rat((k - 1) * IMAGE_INTERVAL, 1),
         duration |->
             RatMin(Rat(IMAGE_INTERVAL, 1),
                    Rat(total_duration - (k - 1) * IMAGE_INTERVAL, 1))]]

\* One call of generate_news_video up to the image timings: the voice
\* script has up to MaxImages segments with texts of up to MaxChars
\* characters, or none, and the audio lasts 1 .. MaxNarration seconds.
RECURSIVE SeqsUpTo(_, _)
SeqsUpTo(S, n) ==
    IF n = 0 THEN {<<>>}
    ELSE LET shorter == SeqsUpTo(S, n - 1)
         IN  shorter \cup {Append(q, x) : q \in shorter, x \in S}

InitTiming ==
    /\ IdleRecon
    /\ IdleGroup
    /\ tSegChars \in SeqsUpTo(0 .. MaxChars, MaxImages)
    /\ tTotalDuration \in 1 .. MaxNarration
    /\ tTimings = <<>>
    /\ tDone = FALSE
    /\ IdlePipe
    /\ fs = clear_output
    /\ pc = "off"
    /\ runs = 0
    /\ deletes = 0

\* Line 574: if segments
SegmentTimings ==
    /\ ~tDone
    /\ tTotalDuration > 0
    /\ tSegChars # <<>>
    /\ tTimings' = ProportionalTimings(tSegChars, tTotalDuration)
    /\ tDone' = TRUE
    /\ UNCHANGED <<tSegChars, tTotalDuration, reconVars, groupVars, pipeVars>>

\* Line 606: else
FallbackTimings ==
    /\ ~tDone
    /\ tTotalDuration > 0
    /\ tSegChars = <<>>
    /\ tTimings' = IntervalTimings(tTotalDuration)
    /\ tDone' = TRUE
    /\ UNCHANGED <<tSegChars, tTotalDuration, reconVars, groupVars, pipeVars>>

NextTiming ==
    \/ SegmentTimings
    \/ FallbackTimings

SpecTiming == InitTiming /\ [][NextTiming]_vars

\* ----------------------------------------------------------- the timeline
\* Positions of the segment clips in video_clips.
SegPos == {k \in DOMAIN video_clips : video_clips[k].kind = "segment"}

TransPos == {k \in DOMAIN video_clips : video_clips[k].kind = "transition"}

\* concatenate_videoclips: a clip starts where the clips before it end.
ClipStart(k) == SumDur(SubSeq(video_clips, 1, k - 1))

ClipEnd(k) == ClipStart(k) + video_clips[k].duration

\* Segment i has a clip on the timeline.
InTimeline(i) == \E k \in SegPos : video_clips[k].index = i

Segs == 0 .. (subarticles - 1)

\* The loop of assemble_subarticle_video has run to its end.
LoopDone == pc \in {"export", "done"} /\ subarticles > 0
            /\ Len(processed_videos) = subarticles /\ idx = subarticles

\* ------------------------------------------------------------------ claims

\* C1: every segment on the final timeline has a processed visual clip whose
\* duration equals the duration of the segment's audio, in any run, with or
\* without reuse.  (The code composites whatever processed file it finds.)
C1_VisualMatchesAudio ==
    \A k \in SegPos : video_clips[k].duration = video_clips[k].audio_duration

\* C2: for all raw > 0 and target > 0 the plan of slow_and_loop_video yields
\* exactly target of playable content: the concatenation before trimming is
\* never shorter than the target and the trim point is the target.
C2_PlanCoversTarget ==
    \A k \in DOMAIN rPlan :
        /\ ~RatLess(rPlan[k].looped_duration, Rat(rTarget, 1))
        /\ rPlan[k].trim_to = rTarget
        /\ RatEq(rPlan[k].playable, Rat(rTarget, 1))

\* C2 witness: a plan that loops at least twice and has excess to trim.
C2_Witness ==
    /\ rPlan # <<>>
    /\ rPlan[1].did_loop
    /\ rPlan[1].loops_needed >= 2
    /\ RatLess(Rat(rTarget, 1), rPlan[1].looped_duration)

\* C3: on the timeline the composited segments are in ascending segment
\* order, their intervals do not overlap, and each starts exactly one
\* transition gap after the end of the composited segment before it,
\* whichever segments were skipped.
C3_OrderedGapSeparated ==
    \A k, l \in SegPos :
        k < l =>
            /\ video_clips[k].index < video_clips[l].index
            /\ ClipEnd(k) <= ClipStart(l)
            /\ (~\E m \in SegPos : k < m /\ m < l)
                   => ClipStart(l) = ClipEnd(k) + TRANSITION

\* C3 witness: two composited segments with a skipped segment between them.
C3_Witness ==
    /\ LoopDone
    /\ \E k, l \in SegPos :
          /\ k < l
          /\ video_clips[l].index > video_clips[k].index + 1
          /\ ~\E m \in SegPos : k < m /\ m < l

\* C4: the first composited segment starts at 0 with no transition before
\* it, N composited segments have N-1 transitions between them and the
\* timeline is as long as their durations plus (N-1) gaps, also when
\* segment 0 is skipped.
C4_FirstAtZero ==
    (LoopDone /\ SegPos # {}) =>
        /\ \A k \in SegPos : (\A m \in SegPos : k <= m) => ClipStart(k) = 0
        /\ Cardinality(TransPos) = Cardinality(SegPos) - 1
        /\ SumDur(video_clips) =
               SumDur(SelectSeq(video_clips, LAMBDA c : c.kind = "segment"))
                   + (Cardinality(SegPos) - 1) * TRANSITION

\* C5: every cue group_words_for_subtitles emits has start < end and the
\* cues are non-decreasing in start; a word with end <= start is rejected or
\* clamped and never yields a cue with end <= start.
C5_CuesWellFormed ==
    gDone =>
        \A k \in DOMAIN gSubtitles :
            /\ gSubtitles[k].start < gSubtitles[k].end
            /\ k > 1 => gSubtitles[k - 1].start <= gSubtitles[k].start

\* Number of words in the cues before cue k.
RECURSIVE TokensBefore(_, _)
TokensBefore(subs, k) ==
    IF k <= 1 THEN 0 ELSE TokensBefore(subs, k - 1) + Len(subs[k - 1].words)

\* C6: a cue is emitted exactly when the pending group reaches max_words
\* words or the word just added ends in '.', '!' or '?', whichever comes
\* first, and the remaining group is emitted at the end of the input; a cue
\* starts with its first word, ends with its last word and holds at most
\* max_words words.
C6_FlushRule ==
    gDone =>
        /\ TokensBefore(gSubtitles, Len(gSubtitles) + 1) = Len(gWords)
        /\ \A k \in DOMAIN gSubtitles :
              LET c == gSubtitles[k]
                  b == TokensBefore(gSubtitles, k)
                  len == Len(c.words)
              IN  /\ len >= 1
                  /\ len <= gMaxWords
                  /\ c.words = SubSeq(gWords, b + 1, b + len)
                  /\ \A j \in 1 .. (len - 1) :
                        ~EndsWithTerminal(gWords[b + j].text)
                  /\ \/ len = gMaxWords
                     \/ EndsWithTerminal(gWords[b + len].text)
                     \/ (k = Len(gSubtitles) /\ b + len = Len(gWords))
                  /\ c.start = gWords[b + 1].start
                  /\ c.end = gWords[b + len].end

\* C6 witness: a cue closed by the word count, a cue closed by punctuation
\* before the count is reached, and a remaining group emitted at the end.
C6_Witness ==
    /\ gDone
    /\ Len(gSubtitles) >= 3
    /\ \E k \in DOMAIN gSubtitles :
          /\ k < Len(gSubtitles)
          /\ Len(gSubtitles[k].words) = gMaxWords
          /\ ~EndsWithTerminal(gSubtitles[k].words[gMaxWords].text)
    /\ \E k \in DOMAIN gSubtitles :
          /\ Len(gSubtitles[k].words) < gMaxWords
          /\ EndsWithTerminal(gSubtitles[k].words[Len(gSubtitles[k].words)].text)
    /\ LET c == gSubtitles[Len(gSubtitles)]
       IN  /\ Len(c.words) < gMaxWords
           /\ ~EndsWithTerminal(c.words[Len(c.words)].text)

\* C7: a segment without a processed visual or without audio is left out
\* with its visual, audio and captions, the other segments are all
\* composited, and no exception leaves generate_subarticle_news_video.
C7_FailedSegmentLeftOut ==
    /\ ~raised
    /\ pc \in {"assemble", "export", "done"} =>
          \A i \in Segs :
              i < idx =>
                  /\ InTimeline(i) <=> HasBoth(i)
                  /\ ~HasBoth(i) =>
                        /\ \A k \in DOMAIN video_clips : video_clips[k].index # i
                        /\ \A k \in DOMAIN all_subtitles :
                              all_subtitles[k].segment # i
    /\ (pc = "done" /\ result = Path) =>
          /\ fs.final = "complete"
          /\ \A i \in Segs : HasBoth(i) => InTimeline(i)

\* C7 witness: a run whose visual generation failed for one segment has
\* written its output with another segment, captions included.
C7_Witness ==
    /\ pc = "done"
    /\ result = Path
    /\ \E i \in Segs : VideoPath(i) = None /\ AudioPath(i) = Path /\ ~InTimeline(i)
    /\ \E j \in Segs :
          /\ InTimeline(j)
          /\ \E k \in DOMAIN all_subtitles : all_subtitles[k].segment = j

\* Sum of the processed durations of the composited segments before i.
RECURSIVE CompositedBefore(_)
CompositedBefore(i) ==
    IF i = 0 THEN 0
    ELSE CompositedBefore(i - 1)
             + (IF HasBoth(i - 1) THEN fs.proc[i - 1] ELSE 0)

\* The duration a segment has or would have had on the timeline.
Nominal(j) == IF fs.proc[j] > 0 THEN fs.proc[j] ELSE fs.audio[j]

\* Start of segment i when every segment before it is composited.
RECURSIVE ScheduledStart(_)
ScheduledStart(i) ==
    IF i = 0 THEN 0
    ELSE ScheduledStart(i - 1) + Nominal(i - 1) + TRANSITION

\* C8 as stated: when a segment is skipped, every later segment starts at
\* the time it would have had if the skipped segment had been composited.
C8_PlacementsNotRecomputed ==
    (pc \in {"assemble", "export", "done"} /\ \A j \in Segs : Nominal(j) > 0) =>
        \A k \in SegPos : ClipStart(k) = ScheduledStart(video_clips[k].index)

\* C8 amended: a skipped segment takes no time on the timeline; a composited
\* segment starts at the summed durations of the composited segments before
\* it plus one gap for each composited segment of index > 0 up to itself.
C8_PlacedWithoutSkipped ==
    pc \in {"assemble", "export", "done"} =>
        \A k \in SegPos :
            LET i == video_clips[k].index
            IN  ClipStart(k) =
                    CompositedBefore(i)
                        + TRANSITION * Cardinality({j \in 1 .. i : HasBoth(j)})

\* C8 witness: a segment with known duration was skipped and a later one
\* composited.
C8_Witness ==
    /\ LoopDone
    /\ \E i, j \in Segs :
          /\ j < i
          /\ ~HasBoth(j)
          /\ Nominal(j) > 0
          /\ InTimeline(i)

\* C9: if no segment has both a processed visual and audio,
\* assemble_subarticle_video returns None and writes no output file.
C9_NothingToCompose ==
    (subarticles > 0 /\ Len(processed_videos) = subarticles
        /\ idx = subarticles /\ pc \in {"assemble", "export", "done"}
        /\ \A i \in Segs : ~HasBoth(i)) =>
            /\ ~export_started
            /\ pc # "export"
            /\ pc = "done" => result = None

\* C9 witness: a run with segments, none of them usable, has returned None.
C9_Witness ==
    /\ pc = "done"
    /\ subarticles > 0
    /\ Len(processed_videos) = subarticles
    /\ \A i \in Segs : ~HasBoth(i)
    /\ result = None
    /\ ~export_started

\* C10: a run whose composition fails, also during export, leaves no
\* partially written file at the final output path.
C10_NoPartialOutput ==
    (pc = "done" /\ result = None) => fs.final # "partial"

\* ------------------------------------------------------------ reuse rules
Artifacts == {k \in DOMAIN decided : k[1] # "report"}

\* C11 as stated: an artifact is reused if and only if reuse_existing is
\* true and its file exists, and a run with reuse_existing false finds the
\* output directory cleared and reuses nothing.
C11_ReusedIffFlagAndFile ==
    \A k \in Artifacts :
        /\ (decided[k].how = "reuse") <=> (reuse_existing /\ decided[k].existed)
        /\ ~reuse_existing =>
               (~decided[k].existed /\ decided[k].how # "reuse")

\* C11, amended: an artifact is reused if and only if reuse_existing is
\* true, its file exists and the run can use it (the segment list parses,
\* the segment has a raw clip and an audio of positive duration); a segment
\* without raw clip or audio gets no processed clip, reused or new; with
\* reuse_existing false the run starts on a cleared output directory,
\* finds no artifact and reuses none.
C11_ReusedIffUsableFile ==
    /\ \A k \in Artifacts :
           /\ (decided[k].how = "reuse") <=>
                  (reuse_existing /\ decided[k].existed /\ decided[k].usable)
           /\ (decided[k].how = "none") <=> (k[1] = "proc" /\ ~decided[k].usable)
           /\ ~decided[k].usable => k[1] \in {"segments", "proc"}
           /\ ~reuse_existing => ~decided[k].existed
    /\ (pc = "extract" /\ ~reuse_existing) => fs = clear_output

\* A reuse run that reused one artifact and passed over another whose file
\* existed.
C11_Witness ==
    /\ reuse_existing
    /\ \E k \in Artifacts : decided[k].how = "reuse"
    /\ \E k \in Artifacts : decided[k].existed /\ decided[k].how # "reuse"

\* C12: when a run without --reuse ends, output/report_cache.json holds the
\* report the run selected and cached.
C12_ReportCacheKept ==
    (pc = "done" /\ ~reuse_existing) => fs.report = best_report

\* The file of the artifact is missing, or it is a segment list that
\* cannot be read.
Missing(k) == ~decided[k].existed \/ (k[1] = "segments" /\ ~decided[k].usable)

Submitted == DOMAIN task

\* The as_completed loop and the with-block are behind the run.
Joined == pc \in {"process", "assemble", "export"} \/ (pc = "done" /\ ~raised
                                                        /\ subarticles > 0)

\* C14: while the run reconciles, composes or exports, no generation task
\* is queued, running or uncollected, and when composition begins every
\* segment has been through the reconciliation step.
C14_ComposeAfterJoin ==
    /\ pc \in {"process", "assemble", "export"} =>
           /\ pending = {}
           /\ \A i \in Submitted : task[i] \notin {"queued", "running"}
    /\ pc \in {"assemble", "export"} => Len(processed_videos) = subarticles

\* Composition has begun in a run that submitted two generation tasks.
C14_Witness ==
    /\ pc = "assemble"
    /\ Cardinality(Submitted) >= 2
    /\ Len(processed_videos) >= 2

\* C15: a failed generation call neither stops the run nor its siblings:
\* no exception leaves the stage, and once the stage is over every
\* submitted task has run to its end and has its result recorded under its
\* own index, None for a task that failed.
C15_FailSoft ==
    /\ ~raised
    /\ Joined =>
           \A i \in Submitted :
               /\ task[i] \in {Path, None}
               /\ i \in DOMAIN video_results
               /\ video_results[i] = task[i]

\* One task has failed and is recorded as None under its index while a
\* sibling is still running.
C15_Witness ==
    /\ pc = "video"
    /\ \E i \in Submitted \ pending : video_results[i] = None
    /\ \E j \in pending : task[j] = "running"

\* The indices whose raw clip came from the cache.
Cached == {i \in Segs : Key("raw", i) \in DOMAIN decided
                          /\ decided[Key("raw", i)].how = "reuse"}

\* C16: video_results is keyed by segment index, no key is written twice,
\* a cached index is never submitted, and after the stage every index has
\* exactly one result.
C16_WrittenOnce ==
    /\ DOMAIN video_results \subseteq Segs
    /\ DOMAIN writes = DOMAIN video_results
    /\ \A k \in DOMAIN writes : writes[k] = 1
    /\ Cached \cap Submitted = {}
    /\ pc = "video" => DOMAIN video_results = Cached \cup (Submitted \ pending)
    /\ Joined => DOMAIN video_results = Segs /\ Cached \cup Submitted = Segs

\* A run served one index from the cache and submitted another.
C16_Witness ==
    /\ Joined
    /\ Cached # {}
    /\ Submitted # {}

\* C17: whatever the completion order, the result stored under index i is
\* the one of the task submitted for segment i, audio_results[i] is the
\* audio of segment i, processed_videos[i] is the processed clip of
\* segment i, and the timeline holds the segments in ascending order.
C17_OrderPreserved ==
    /\ \A k \in DOMAIN video_owner : video_owner[k] = k
    /\ \A j \in DOMAIN audio_results :
           /\ audio_results[j].segment = j - 1
           /\ audio_results[j].path # None =>
                  audio_results[j].duration = fs.audio[j - 1]
    /\ \A j \in DOMAIN processed_videos :
           processed_videos[j] # None => fs.proc[j - 1] > 0
    /\ \A k1, k2 \in SegPos :
           k1 < k2 => video_clips[k1].index < video_clips[k2].index
    /\ \A k \in SegPos :
           /\ video_clips[k].duration = fs.proc[video_clips[k].index]
           /\ video_clips[k].audio_duration = fs.audio[video_clips[k].index]

\* The task of segment 1 completed before the task of segment 0 and both
\* segments are on the timeline of a delivered video.
C17_Witness ==
    /\ collected = <<1, 0>>
    /\ pc = "done"
    /\ result = Path
    /\ InTimeline(0)
    /\ InTimeline(1)

\* ------------------------------------------------------- caption offsets
\* C18: every cue's start and end are its segment-local start and end plus
\* the start of its own segment's clip in the concatenation, transitions
\* before that clip included.
C18_CueOffsetIsSegmentStart ==
    \A c \in DOMAIN all_subtitles :
        \E k \in SegPos :
            /\ video_clips[k].index = all_subtitles[c].segment
            /\ all_subtitles[c].start =
                   all_subtitles[c].local_start + ClipStart(k)
            /\ all_subtitles[c].end =
                   all_subtitles[c].local_end + ClipStart(k)

\* A cue of a segment that starts after an earlier segment and a
\* transition.
C18_Witness ==
    \E c \in DOMAIN all_subtitles :
        \E k \in SegPos :
            /\ video_clips[k].index = all_subtitles[c].segment
            /\ k >= 3
            /\ all_subtitles[c].start > all_subtitles[c].local_start

\* C19: at every iteration of the loop current_time is the total duration
\* of the clips appended so far, and every segment clip was appended at the
\* time where the concatenation puts it.
C19_TimeIsTotalDuration ==
    /\ current_time = SumDur(video_clips)
    /\ \A k \in SegPos : video_clips[k].start = ClipStart(k)

\* The loop has appended two segments and a transition between them.
C19_Witness ==
    /\ pc = "assemble"
    /\ Cardinality(SegPos) >= 2
    /\ TransPos # {}
    /\ current_time > 0

\* ------------------------------------------------------------ speed factor
\* C20: for all raw > 0 and target > 0 the speed factor lies in [0.4, 0.8]
\* and so below 1.0.
C20_SpeedFactorBounded ==
    \A k \in DOMAIN rPlan :
        /\ ~RatLess(rPlan[k].slow_factor, MIN_SPEED)
        /\ ~RatLess(MAX_SPEED, rPlan[k].slow_factor)
        /\ RatLess(rPlan[k].slow_factor, Rat(1, 1))

\* The raw clip is longer than the target, so that playing it in the
\* target's time would mean speeding it up, and the factor is 0.8.
C20_Witness ==
    /\ rPlan # <<>>
    /\ rRaw > rTarget
    /\ RatEq(rPlan[1].slow_factor, MAX_SPEED)

\* C21 as stated: when the raw clip is longer than the target, the speed
\* factor is the minimum speed 0.4, the clip is not looped and is trimmed.
C21_LongRawAtMinimumSpeed ==
    \A k \in DOMAIN rPlan :
        rRaw > rTarget =>
            /\ RatEq(rPlan[k].slow_factor, MIN_SPEED)
            /\ ~rPlan[k].did_loop
            /\ rPlan[k].loops_needed = 1
            /\ rPlan[k].trim_to = rTarget

\* C21, amended: when the raw clip is longer than the target, the speed
\* factor is the upper bound 0.8 of the range, the slowed clip is longer
\* than the target, it is not looped (one repetition) and is trimmed to
\* the target.
C21_LongRawAtMaximumSpeed ==
    \A k \in DOMAIN rPlan :
        rRaw > rTarget =>
            /\ RatEq(rPlan[k].slow_factor, MAX_SPEED)
            /\ RatLess(Rat(rTarget, 1), rPlan[k].slowed_duration)
            /\ ~rPlan[k].did_loop
            /\ rPlan[k].loops_needed = 1
            /\ rPlan[k].trim_to = rTarget
            /\ RatEq(rPlan[k].playable, Rat(rTarget, 1))

\* A raw clip longer than the target has been planned: no loop, and the
\* slowed clip has excess to trim.
C21_Witness ==
    /\ rPlan # <<>>
    /\ rRaw > rTarget
    /\ ~rPlan[1].did_loop
    /\ RatLess(Rat(rTarget, 1), rPlan[1].looped_duration)

ThreeSegmentScenario ==
    /\ subarticles = 3
    /\ fs.proc[0] = 40 /\ fs.proc[1] = 65 /\ fs.proc[2] = 32
    /\ \A i \in 0 .. 2 : HasBoth(i)
    /\ pc \in {"assemble", "export", "done"}
    /\ idx = 3

\* C23: segments of 4.0, 6.5 and 3.2 with a gap of 0.1 are placed at
\* (0, 4.0), (4.1, 10.6) and (10.7, 13.9), in ticks of 0.1.
C23_ThreeSegmentPlacements ==
    ThreeSegmentScenario =>
        /\ Len(video_clips) = 5
        /\ SegPos = {1, 3, 5}
        /\ ClipStart(1) = 0 /\ ClipEnd(1) = 40
        /\ ClipStart(3) = 41 /\ ClipEnd(3) = 106
        /\ ClipStart(5) = 107 /\ ClipEnd(5) = 139
        /\ \A k \in SegPos : video_clips[k].start = ClipStart(k)
        /\ current_time = 139

\* The three segments have been composited and the export has begun.
C23_Witness ==
    /\ ThreeSegmentScenario
    /\ pc = "export"
    /\ Len(video_clips) = 5

\* C24: a segment whose audio duration is 0 or less is reported as an
\* input error at the reconciliation stage; it is never given a missing
\* processed clip without an error.
C24_ZeroTargetIsError ==
    \A j \in DOMAIN processed_videos :
        (j <= Len(audio_results) /\ audio_results[j].duration <= 0) => raised

\* The parts of a plan the claim names.
PlanCore(plan) ==
    [slow_factor |-> plan.slow_factor, loops_needed |-> plan.loops_needed,
     trim_to |-> plan.trim_to]

C26_SegmentsOfSelectedReport ==
    (/\ reuse_existing
     /\ Key("segments", 0) \in DOMAIN decided
     /\ decided[Key("segments", 0)].how = "reuse") =>
        fs.segments_of = best_report

\* C27: a processed clip is reused only for a segment whose audio and raw
\* clip were reused in the same run.
C27_ProcessedReusedWithInputs ==
    \A i \in SegIdx :
        (/\ Key("proc", i) \in DOMAIN decided
         /\ decided[Key("proc", i)].how = "reuse") =>
            /\ decided[Key("audio", i)].how = "reuse"
            /\ decided[Key("raw", i)].how = "reuse"

RECURSIVE SumDurations(_)
SumDurations(timings) ==
    IF timings = <<>> THEN Rat(0, 1)
    ELSE RatAdd(timings[1].duration, SumDurations(Tail(timings)))

\* C28: in both branches the image timings tile the narration: the first
\* image starts at 0, each image starts where the one before ends, every
\* duration is positive and the durations add up to the audio duration.
C28_TimingsTile ==
    tDone =>
        /\ tTimings # <<>>
        /\ RatEq(tTimings[1].start, Rat(0, 1))
        /\ \A k \in 2 .. Len(tTimings) :
               RatEq(tTimings[k].start,
                     RatAdd(tTimings[k - 1].start, tTimings[k - 1].duration))
        /\ \A k \in DOMAIN tTimings : RatLess(Rat(0, 1), tTimings[k].duration)
        /\ RatEq(SumDurations(tTimings), Rat(tTotalDuration, 1))

\* The cues that last longer than nothing.
PositiveCues == {c \in DOMAIN all_subtitles :
                    all_subtitles[c].end > all_subtitles[c].start}

\* C29: every subtitle clip made for rendering has a positive duration,
\* and the clips are exactly the cues whose end is after their start: a
\* cue with end <= start gets no clip.
C29_OnlyPositiveCuesRendered ==
    /\ \A k \in DOMAIN subtitle_clips : subtitle_clips[k].duration > 0
    /\ pc \in {"export", "done"} /\ export_started =>
           /\ Len(subtitle_clips) = Cardinality(PositiveCues)
           /\ \A k \in DOMAIN subtitle_clips :
                  \E c \in PositiveCues :
                      /\ subtitle_clips[k].text = all_subtitles[c].text
                      /\ subtitle_clips[k].start = all_subtitles[c].start
                      /\ subtitle_clips[k].duration =
                             all_subtitles[c].end - all_subtitles[c].start

\* The export has begun with a cue of no duration among the cues and
\* clips made of the others.
C29_Witness ==
    /\ pc = "export"
    /\ \E c \in DOMAIN all_subtitles :
           all_subtitles[c].end <= all_subtitles[c].start
    /\ subtitle_clips # <<>>

\* The tokens of the cues, in the order of the cues.
RECURSIVE CueWords(_)
CueWords(subs) ==
    IF subs = <<>> THEN <<>> ELSE subs[1].words \o CueWords(Tail(subs))

\* C30: the tokens of the emitted cues, taken in order, are exactly the
\* input sequence, every cue holds at least one token, and the text of a
\* cue is made of its tokens.
C30_TokensPreserved ==
    gDone =>
        /\ CueWords(gSubtitles) = gWords
        /\ \A k \in DOMAIN gSubtitles :
               /\ Len(gSubtitles[k].words) >= 1
               /\ gSubtitles[k].text = JoinText(gSubtitles[k].words)

\* A full-length input was grouped into several cues, the last of them
\* made of the words left over at the end of the input.
C30_Witness ==
    /\ gDone
    /\ Len(gWords) = MaxTokens
    /\ Len(gSubtitles) >= 2
    /\ ~EndsWithTerminal(gWords[Len(gWords)].text)
    /\ Len(gSubtitles[Len(gSubtitles)].words) < gMaxWords
====
